---- MODULE Spec2Model ----
(***************************************************************************)
(* Model of sanic_cookies/models.py (LockKeeper, SessionDict) and of        *)
(* sanic_cookies/interfaces/asyncpg.py (AsyncPG), running on one asyncio    *)
(* event loop.  Every task handles one request and owns one SessionDict    *)
(* (the view); a step of the model is the code a task runs between two      *)
(* suspension points (await of a locked asyncio.Lock, await of backend     *)
(* I/O).                                                                    *)
(***************************************************************************)
EXTENDS Integers, Sequences, FiniteSets, TLC

\* ------------------------------------------------------------------ bounds
NumTasks == 2
MaxClock == 1
\* Session.expiry, the ttl handed to AsyncPG.store (seconds of the model clock)
Expiry == 1
\* the largest ttl handed to AsyncPG.store when the interface is called directly
MaxTtl == 2

Tasks == 1..NumTasks
Sids == {"x", "y"}
LockIds == 1..(NumTasks + Cardinality(Sids))
\* the keys of item accesses, and the keys handed to the forwarded dict methods
Keys == {"a", "A"}
MethodKeys == {"a"}
\* Values are opaque to the code.  A value written by an item write records
\* whether the write was guarded ("g": inside the view's own scope) or not
\* ("u"), so that the provenance of stored data can be traced.
Values == {"g", "u"}

VARIABLES
    acquired_locks,  \* LockKeeper.acquired_locks: sid -> lock object
    locks,           \* the asyncio.Lock objects: locked flag and waiter queue
    woken,           \* tasks whose wait on a lock has been completed by Lock.release
    db,              \* the sessions table: sid -> [val, expires_at]
    now,             \* the clock (NOW(), datetime.utcnow())
    sid,             \* SessionDict.sid
    warn_lock,       \* SessionDict.warn_lock
    store,           \* SessionDict.store
    is_modified,     \* SessionDict.is_modified
    pc,              \* where the task owning the view is
    exc,             \* the exception that left the last __aenter__ or __aexit__ of
                     \* the view, until the next operation on the view
    warned,          \* the warnings emitted by the last operation on the view
    mutated,         \* history: a mutating operation (item set, item delete, reset of
                     \* a non-empty store, forwarded dict method) was performed on
                     \* the view since its last load or write-back
    lastWrite,       \* history: sid -> the payload of the last completed write-back
    tz,              \* the TimeZone of the database session: its offset from UTC
    storedAt         \* history: sid -> the payload, the ttl and the time of the last
                     \* AsyncPG.store of a non-null payload, until a delete

vars == <<acquired_locks, locks, woken, db, now, sid, warn_lock, store,
          is_modified, pc, exc, warned, mutated, lastWrite, tz, storedAt>>

\* ------------------------------------------------------------ Python values
NoneVal == [none |-> TRUE]
EmptyPayload == [k \in {} |-> "g"]

\* str.lower
Lower(k) == IF k = "A" THEN "a" ELSE k

\* x or {}
OrEmpty(x) == IF x = NoneVal \/ x = EmptyPayload THEN EmptyPayload ELSE x

\* d[k] = v ; del d[k]
Put(d, k, v) == [x \in (DOMAIN d) \cup {k} |-> IF x = k THEN v ELSE d[x]]
Del(d, k) == [x \in (DOMAIN d) \ {k} |-> d[x]]
Range(f) == {f[x] : x \in DOMAIN f}

\* ujson.dumps / ujson.loads on a mapping of string keys: the encoded value is
\* the text of the items, not the mapping itself
encoder(val) == [json |-> {<<k, val[k]>> : k \in DOMAIN val}]
decoder(text) ==
    [k \in {i[1] : i \in text.json} |-> (CHOOSE i \in text.json : i[1] = k)[2]]

\* -------------------------------------------------------------- asyncio.Lock
FreshLock == [locked |-> FALSE, waiters |-> <<>>]

\* Lock objects nobody refers to are collected: a lock is alive while the
\* registry maps a sid to it or a task waits on it.
Collect(reg, lks) ==
    [l \in LockIds |-> IF l \in Range(reg) \/ lks[l].waiters # <<>>
                       THEN lks[l] ELSE FreshLock]

\* Lock(): a lock object not in use
NewLock == CHOOSE l \in LockIds :
              /\ l \notin Range(acquired_locks)
              /\ locks[l].waiters = <<>>
              /\ \A m \in LockIds :
                    (m \notin Range(acquired_locks) /\ locks[m].waiters = <<>>) => l <= m

\* the lock a suspended task waits on
WaitLock(t) == CHOOSE l \in LockIds : t \in Range(locks[l].waiters)

Without(q, t) == SelectSeq(q, LAMBDA u : u # t)

\* Lock.release(): unlock and complete the wait of the first waiter
LockRelease(lks, wk, l) ==
    [locks |-> [lks EXCEPT ![l].locked = FALSE],
     woken |-> IF lks[l].waiters # <<>> THEN wk \cup {Head(lks[l].waiters)} ELSE wk]

\* ---------------------------------------------------------------- LockKeeper
\* acquire whose lookup is stale: the creation branch is taken although the
\* registry has an entry, and the new lock replaces it
acquire_create_always(t, s) ==
    LET new_lock == NewLock IN
    [acquired_locks |-> Put(acquired_locks, s, new_lock),
     locks |-> [locks EXCEPT ![new_lock].locked = TRUE],
     suspended |-> FALSE]

\* acquire without `await new_lock.acquire()`: the new lock is inserted unlocked
acquire_insert_unlocked(t, s) ==
    IF s \in DOMAIN acquired_locks
    THEN LET l == acquired_locks[s] IN
         IF locks[l].locked \/ locks[l].waiters # <<>>
         THEN [acquired_locks |-> acquired_locks,
               locks |-> [locks EXCEPT ![l].waiters = Append(@, t)],
               suspended |-> TRUE]
         ELSE [acquired_locks |-> acquired_locks,
               locks |-> [locks EXCEPT ![l].locked = TRUE],
               suspended |-> FALSE]
    ELSE LET new_lock == NewLock IN
         [acquired_locks |-> Put(acquired_locks, s, new_lock),
          locks |-> locks,
          suspended |-> FALSE]

\* acquire with one lock for the whole registry: the lock of any entry is
\* taken for the lock of s
acquire_any_entry(t, s) ==
    IF acquired_locks # <<>>
    THEN LET l == acquired_locks[CHOOSE k \in DOMAIN acquired_locks : TRUE] IN
         [acquired_locks |-> acquired_locks,
          locks |-> [locks EXCEPT ![l].waiters = Append(@, t)],
          suspended |-> TRUE]
    ELSE LET new_lock == NewLock IN
         [acquired_locks |-> Put(acquired_locks, s, new_lock),
          locks |-> [locks EXCEPT ![new_lock].locked = TRUE],
          suspended |-> FALSE]

\* LockKeeper.acquire up to its suspension or its return.  An asyncio.Lock is
\* truthy, so the first branch is taken exactly when the registry has an entry.
\* Awaiting acquire() of an unlocked lock returns without suspending.
acquire(t, s) ==
    IF s \in DOMAIN acquired_locks
    THEN LET l == acquired_locks[s] IN
         IF locks[l].locked \/ locks[l].waiters # <<>>
         THEN [acquired_locks |-> acquired_locks,
               locks |-> [locks EXCEPT ![l].waiters = Append(@, t)],
               suspended |-> TRUE]
         ELSE [acquired_locks |-> acquired_locks,
               locks |-> [locks EXCEPT ![l].locked = TRUE],
               suspended |-> FALSE]
    ELSE LET new_lock == NewLock IN
         [acquired_locks |-> Put(acquired_locks, s, new_lock),
          locks |-> [locks EXCEPT ![new_lock].locked = TRUE],
          suspended |-> FALSE]

\* release with the commented-out existing_lock.release() put back: the lock is
\* released, its first waiter woken, and the entry deleted
release_and_unlock(s) ==
    IF s \in DOMAIN acquired_locks
    THEN LET r == LockRelease(locks, woken, acquired_locks[s]) IN
         [acquired_locks |-> Del(acquired_locks, s), locks |-> r.locks, woken |-> r.woken]
    ELSE [acquired_locks |-> acquired_locks, locks |-> locks, woken |-> woken]

\* release that releases the lock object and keeps the entry
release_unlock_only(s) ==
    IF s \in DOMAIN acquired_locks
    THEN LET r == LockRelease(locks, woken, acquired_locks[s]) IN
         [acquired_locks |-> acquired_locks, locks |-> r.locks, woken |-> r.woken]
    ELSE [acquired_locks |-> acquired_locks, locks |-> locks, woken |-> woken]

\* release without the `del`: the entry is kept
release_keeps_entry(s) ==
    [acquired_locks |-> acquired_locks, locks |-> locks, woken |-> woken]

\* LockKeeper.release: the entry is deleted, the lock object is not released
release(s) ==
    IF s \in DOMAIN acquired_locks
    THEN [acquired_locks |-> Del(acquired_locks, s), locks |-> locks, woken |-> woken]
    ELSE [acquired_locks |-> acquired_locks, locks |-> locks, woken |-> woken]

\* ------------------------------------------------------------------- AsyncPG
\* datetime.datetime.utcnow(): the naive UTC time of the application
utcnow == now
\* NOW() compared with expires_at, a `timestamp without time zone`: the local
\* time of the TimeZone of the database session
NOW == now + tz

\* SELECT val FROM sessions WHERE sid = $1 AND expires_at > NOW()
fetch(s) ==
    LET val == IF s \in DOMAIN db /\ db[s].expires_at > NOW THEN db[s].val ELSE NoneVal
    IN IF val # NoneVal THEN decoder(val) ELSE NoneVal

\* the INSERT with ON CONFLICT DO NOTHING: an existing row is kept
pg_store_insert_only(s, expiry, val) ==
    IF val # NoneVal /\ s \notin DOMAIN db
    THEN Put(db, s, [val |-> encoder(val), expires_at |-> utcnow + expiry])
    ELSE db

\* INSERT ... ON CONFLICT (sid) DO UPDATE SET val, expires_at
pg_store(s, expiry, val) ==
    IF val # NoneVal
    THEN Put(db, s, [val |-> encoder(val), expires_at |-> utcnow + expiry])
    ELSE db

\* DELETE FROM sessions WHERE sid = $1
pg_delete(s) == Del(db, s)

\* Session._fetch_sess / Session._post_sess hand the call to the interface
fetch_sess(s) == fetch(s)
post_sess(s, val) == pg_store(s, Expiry, val)

\* --------------------------------------------------------------- SessionDict
\* SessionDict.__init__
SessionDictInit(initial) == OrEmpty(initial)

is_locked_in(reg, lks, s) == IF s \in DOMAIN reg THEN lks[reg[s]].locked ELSE FALSE
is_locked(t) == is_locked_in(acquired_locks, locks, sid[t])

\* the warnings _warn_if_not_locked emits
warn_if_not_locked(t) ==
    IF ~is_locked(t) /\ warn_lock[t] THEN {"UNLOCKED"} ELSE {}

InScope(t) == pc[t] = "body"
Running(t) == pc[t] \in {"idle", "body"}
WriteValue(t) == IF InScope(t) THEN "g" ELSE "u"

\* the views of concurrent requests of one session: all bound to the same id
SidBindings == {[t \in Tasks |-> "x"]}
\* the `initial` argument of the constructor
InitialMappings == {NoneVal, EmptyPayload, [k \in {"a"} |-> "u"]}

Init ==
    /\ acquired_locks = [s \in {} |-> 1]
    /\ locks = [l \in LockIds |-> FreshLock]
    /\ woken = {}
    /\ db = [s \in {} |-> NoneVal]
    /\ now = 0
    /\ sid \in SidBindings
    /\ warn_lock \in [Tasks -> BOOLEAN]
    /\ \E initial \in [Tasks -> InitialMappings] :
          store = [t \in Tasks |-> SessionDictInit(initial[t])]
    /\ is_modified = [t \in Tasks |-> FALSE]
    /\ pc = [t \in Tasks |-> "idle"]
    /\ exc = [t \in Tasks |-> "none"]
    /\ warned = [t \in Tasks |-> {}]
    /\ mutated = [t \in Tasks |-> FALSE]
    /\ lastWrite = [s \in {} |-> EmptyPayload]
    /\ tz = 0
    /\ storedAt = [s \in {} |-> EmptyPayload]

lockVars == <<acquired_locks, locks, woken>>
viewConst == <<sid, warn_lock>>

\* SessionDict.__getitem__
getitem(t, key) ==
    /\ Running(t)
    /\ warned' = [warned EXCEPT ![t] = warn_if_not_locked(t)]
    /\ exc' = [exc EXCEPT ![t] = "none"]
    /\ UNCHANGED <<lockVars, db, now, viewConst, store, is_modified, pc, mutated, lastWrite, tz, storedAt>>

\* SessionDict.__setitem__
setitem(t, key) ==
    /\ Running(t)
    /\ warned' = [warned EXCEPT ![t] = warn_if_not_locked(t)]
    /\ is_modified' = [is_modified EXCEPT ![t] = TRUE]
    /\ store' = [store EXCEPT ![t] = Put(@, Lower(key), WriteValue(t))]
    /\ mutated' = [mutated EXCEPT ![t] = TRUE]
    /\ exc' = [exc EXCEPT ![t] = "none"]
    /\ UNCHANGED <<lockVars, db, now, viewConst, pc, lastWrite, tz, storedAt>>

\* SessionDict.__delitem__: the flag is set before the del, which raises
\* KeyError when the key is missing
delitem(t, key) ==
    /\ Running(t)
    /\ warned' = [warned EXCEPT ![t] = warn_if_not_locked(t)]
    /\ is_modified' = [is_modified EXCEPT ![t] = TRUE]
    /\ store' = [store EXCEPT ![t] = Del(@, Lower(key))]
    /\ mutated' = [mutated EXCEPT ![t] = TRUE]
    /\ exc' = [exc EXCEPT ![t] = "none"]
    /\ UNCHANGED <<lockVars, db, now, viewConst, pc, lastWrite, tz, storedAt>>

DictMethods == {"pop", "popitem", "update", "clear", "setdefault"}

\* the uses of a forwarded method: looked up and not called, or called.  The
\* key is the argument of pop, update and setdefault and the item popitem
\* finds last; clear takes none.
DictUses ==
    {[name |-> n, key |-> k, called |-> TRUE] :
        n \in DictMethods \ {"clear"}, k \in MethodKeys}
    \cup {[name |-> "clear", key |-> "a", called |-> TRUE],
          [name |-> "pop", key |-> "a", called |-> FALSE]}

\* the dict after the bound method getattr(self.store, name) was called; the
\* key reaches the dict as it was given.  pop of a missing key and popitem of
\* an empty dict raise KeyError and leave the dict as it was.  popitem removes
\* the item inserted last: the model keeps no insertion order, any item can be
\* that one.
dict_call(d, name, key, v) ==
    CASE name = "pop" -> Del(d, key)
      [] name = "popitem" ->
            IF key \in DOMAIN d THEN Del(d, key)
            ELSE IF DOMAIN d = {} THEN d
            ELSE Del(d, CHOOSE k \in DOMAIN d : TRUE)
      [] name = "update" -> Put(d, key, v)
      [] name = "clear" -> EmptyPayload
      [] name = "setdefault" -> IF key \in DOMAIN d THEN d ELSE Put(d, key, v)

\* SessionDict.__getattr__ for a forwarded dict method; called tells whether
\* the caller goes on to call the method it was handed
getattr(t, name, key, called) ==
    /\ Running(t)
    /\ warned' = [warned EXCEPT ![t] = warn_if_not_locked(t)]
    /\ is_modified' = [is_modified EXCEPT ![t] = TRUE]
    /\ store' = [store EXCEPT ![t] =
                    IF called THEN dict_call(@, name, key, WriteValue(t)) ELSE @]
    /\ mutated' = [mutated EXCEPT ![t] = TRUE]
    /\ exc' = [exc EXCEPT ![t] = "none"]
    /\ UNCHANGED <<lockVars, db, now, viewConst, pc, lastWrite, tz, storedAt>>

\* reset without the test of the store: the flag is set on every call
reset_unconditional(t) ==
    /\ Running(t)
    /\ warned' = [warned EXCEPT ![t] = warn_if_not_locked(t)]
    /\ store' = [store EXCEPT ![t] = EmptyPayload]
    /\ is_modified' = [is_modified EXCEPT ![t] = TRUE]
    /\ mutated' = [mutated EXCEPT ![t] = TRUE]
    /\ exc' = [exc EXCEPT ![t] = "none"]
    /\ UNCHANGED <<lockVars, db, now, viewConst, pc, lastWrite, tz, storedAt>>

\* SessionDict.reset
reset(t) ==
    /\ Running(t)
    /\ IF store[t] # EmptyPayload
       THEN /\ warned' = [warned EXCEPT ![t] = warn_if_not_locked(t)]
            /\ store' = [store EXCEPT ![t] = EmptyPayload]
            /\ is_modified' = [is_modified EXCEPT ![t] = TRUE]
            /\ mutated' = [mutated EXCEPT ![t] = TRUE]
       ELSE /\ warned' = [warned EXCEPT ![t] = {}]
            /\ UNCHANGED <<store, is_modified, mutated>>
    /\ exc' = [exc EXCEPT ![t] = "none"]
    /\ UNCHANGED <<lockVars, db, now, viewConst, pc, lastWrite, tz, storedAt>>

\* SessionDict.__aenter__ from its call to its first suspension: the warning,
\* lock_keeper.acquire, and when acquire returned at once the assertion and
\* the call of _fetch_sess
aenter(t) ==
    /\ pc[t] = "idle"
    /\ LET r == acquire(t, sid[t])
           held == is_locked_in(r.acquired_locks, r.locks, sid[t])
       IN /\ acquired_locks' = r.acquired_locks
          /\ locks' = r.locks
          /\ pc' = [pc EXCEPT ![t] = IF r.suspended THEN "waiting"
                                     ELSE IF held THEN "fetching" ELSE "idle"]
          /\ exc' = [exc EXCEPT ![t] = IF ~r.suspended /\ ~held
                                       THEN "AssertionError" ELSE "none"]
    /\ warned' = [warned EXCEPT ![t] = IF is_modified[t] THEN {"MIX"} ELSE {}]
    /\ UNCHANGED <<woken, db, now, viewConst, store, is_modified, mutated, lastWrite, tz, storedAt>>

\* a cancellation that cleans up by deleting the registry entry of the sid
acquire_wakeup_cancel_deletes(t) ==
    /\ pc[t] = "waiting"
    /\ LET l == WaitLock(t)
           left == [locks EXCEPT ![l].waiters = Without(@, t)]
       IN IF t \in woken
          THEN LET lks == [left EXCEPT ![l].locked = TRUE]
                   held == is_locked_in(acquired_locks, lks, sid[t])
               IN /\ acquired_locks' = acquired_locks
                  /\ locks' = Collect(acquired_locks, lks)
                  /\ woken' = woken \ {t}
                  /\ pc' = [pc EXCEPT ![t] = IF held THEN "fetching" ELSE "idle"]
                  /\ exc' = [exc EXCEPT ![t] = IF held THEN "none" ELSE "AssertionError"]
          ELSE /\ acquired_locks' = Del(acquired_locks, sid[t])
               /\ locks' = Collect(Del(acquired_locks, sid[t]), left)
               /\ woken' = woken
               /\ pc' = [pc EXCEPT ![t] = "idle"]
               /\ exc' = [exc EXCEPT ![t] = "CancelledError"]
    /\ UNCHANGED <<db, now, viewConst, store, is_modified, warned,
                   mutated, lastWrite, tz, storedAt>>

\* The end of the wait in `await existing_lock.acquire()`: the task was handed
\* the lock by Lock.release, then acquire returns and __aenter__ goes on to its
\* assertion and to _fetch_sess; or the task is cancelled, and CancelledError
\* leaves __aenter__.
acquire_wakeup(t) ==
    /\ pc[t] = "waiting"
    /\ LET l == WaitLock(t)
           left == [locks EXCEPT ![l].waiters = Without(@, t)]
       IN IF t \in woken
          THEN LET lks == [left EXCEPT ![l].locked = TRUE]
                   held == is_locked_in(acquired_locks, lks, sid[t])
               IN /\ locks' = Collect(acquired_locks, lks)
                  /\ woken' = woken \ {t}
                  /\ pc' = [pc EXCEPT ![t] = IF held THEN "fetching" ELSE "idle"]
                  /\ exc' = [exc EXCEPT ![t] = IF held THEN "none" ELSE "AssertionError"]
          ELSE LET w == IF ~left[l].locked /\ left[l].waiters # <<>>
                        THEN woken \cup {Head(left[l].waiters)} ELSE woken
               IN /\ locks' = Collect(acquired_locks, left)
                  /\ woken' = w
                  /\ pc' = [pc EXCEPT ![t] = "idle"]
                  /\ exc' = [exc EXCEPT ![t] = "CancelledError"]
    /\ UNCHANGED <<acquired_locks, db, now, viewConst, store, is_modified, warned,
                   mutated, lastWrite, tz, storedAt>>

\* __aenter__ updating the store with what _fetch_sess returned instead of
\* replacing it
fetch_ok_merge(t) ==
    /\ pc[t] = "fetching"
    /\ LET got == OrEmpty(fetch_sess(sid[t])) IN
       store' = [store EXCEPT ![t] =
                    [k \in (DOMAIN @) \cup (DOMAIN got) |->
                        IF k \in DOMAIN @ THEN @[k] ELSE got[k]]]
    /\ mutated' = [mutated EXCEPT ![t] = FALSE]
    /\ pc' = [pc EXCEPT ![t] = "body"]
    /\ UNCHANGED <<lockVars, db, now, viewConst, is_modified, exc, warned, lastWrite, tz, storedAt>>

\* __aenter__: _fetch_sess returned, the store is replaced by what it returned
fetch_ok(t) ==
    /\ pc[t] = "fetching"
    /\ store' = [store EXCEPT ![t] = OrEmpty(fetch_sess(sid[t]))]
    /\ mutated' = [mutated EXCEPT ![t] = FALSE]
    /\ pc' = [pc EXCEPT ![t] = "body"]
    /\ UNCHANGED <<lockVars, db, now, viewConst, is_modified, exc, warned, lastWrite, tz, storedAt>>

\* __aenter__: _fetch_sess raised; the error leaves __aenter__, __aexit__ is
\* not run for a scope that was never entered
fetch_fail(t) ==
    /\ pc[t] = "fetching"
    /\ pc' = [pc EXCEPT ![t] = "idle"]
    /\ exc' = [exc EXCEPT ![t] = "BackendFailure"]
    /\ UNCHANGED <<lockVars, db, now, viewConst, store, is_modified, warned,
                   mutated, lastWrite, tz, storedAt>>

\* __aexit__ after the write-back, if any: lock_keeper.release and the
\* assertion; e is the exception that leaves the scope otherwise
aexit_release(t, e) ==
    LET r == release(sid[t])
        lks == Collect(r.acquired_locks, r.locks)
    IN /\ acquired_locks' = r.acquired_locks
       /\ locks' = lks
       /\ woken' = r.woken
       /\ pc' = [pc EXCEPT ![t] = "idle"]
       /\ exc' = [exc EXCEPT ![t] =
                    IF is_locked_in(r.acquired_locks, lks, sid[t])
                    THEN "AssertionError" ELSE e]

\* SessionDict.__aexit__ is called, the body having ended or raised: the
\* write-back is started when the flag is set, else the lock is released now
aexit(t, raised) ==
    /\ pc[t] = "body"
    /\ LET e == IF raised THEN "BodyError" ELSE "none" IN
       IF is_modified[t]
       THEN /\ pc' = [pc EXCEPT ![t] = "storing"]
            /\ exc' = [exc EXCEPT ![t] = e]
            /\ UNCHANGED lockVars
       ELSE aexit_release(t, e)
    /\ warned' = [warned EXCEPT ![t] = {}]
    /\ UNCHANGED <<db, now, viewConst, store, is_modified, mutated, lastWrite, tz, storedAt>>

\* __aexit__: _post_sess returned; the flag is cleared and the lock released
post_ok(t) ==
    /\ pc[t] = "storing"
    /\ db' = post_sess(sid[t], store[t])
    /\ lastWrite' = Put(lastWrite, sid[t], store[t])
    /\ storedAt' = Put(storedAt, sid[t], [val |-> store[t], ttl |-> Expiry, at |-> now])
    /\ is_modified' = [is_modified EXCEPT ![t] = FALSE]
    /\ mutated' = [mutated EXCEPT ![t] = FALSE]
    /\ aexit_release(t, exc[t])
    /\ UNCHANGED <<now, tz, viewConst, store, warned>>

\* __aexit__: _post_sess raised; the error leaves __aexit__ before the flag
\* is cleared and before lock_keeper.release
post_fail(t) ==
    /\ pc[t] = "storing"
    /\ pc' = [pc EXCEPT ![t] = "idle"]
    /\ exc' = [exc EXCEPT ![t] = "BackendFailure"]
    /\ UNCHANGED <<lockVars, db, now, viewConst, store, is_modified, warned,
                   mutated, lastWrite, tz, storedAt>>

\* time passes
Tick ==
    /\ now < MaxClock
    /\ now' = now + 1
    /\ UNCHANGED <<lockVars, db, sid, warn_lock, store, is_modified, pc, exc,
                   warned, mutated, lastWrite, tz, storedAt>>

Next ==
    \/ \E t \in Tasks, k \in Keys : getitem(t, k)
    \/ \E t \in Tasks, k \in Keys : setitem(t, k)
    \/ \E t \in Tasks, k \in Keys : delitem(t, k)
    \/ \E t \in Tasks, u \in DictUses : getattr(t, u.name, u.key, u.called)
    \/ \E t \in Tasks : reset(t)
    \/ \E t \in Tasks : aenter(t)
    \/ \E t \in Tasks : acquire_wakeup(t)
    \/ \E t \in Tasks : fetch_ok(t)
    \/ \E t \in Tasks : fetch_fail(t)
    \/ \E t \in Tasks, raised \in BOOLEAN : aexit(t, raised)
    \/ \E t \in Tasks : post_ok(t)
    \/ \E t \in Tasks : post_fail(t)
    \/ Tick

Spec == Init /\ [][Next]_vars

\* The event loop runs every task that can run: backend I/O completes, a task
\* handed a lock resumes, a scope body ends.  Nothing obliges a task to start a
\* scope or to touch its view, and cancellation is never forced.
Fairness ==
    \A t \in Tasks :
        /\ WF_vars(fetch_ok(t) \/ fetch_fail(t))
        /\ WF_vars(post_ok(t) \/ post_fail(t))
        /\ WF_vars(aexit(t, TRUE) \/ aexit(t, FALSE))
        /\ WF_vars(t \in woken /\ acquire_wakeup(t))
FairSpec == Spec /\ Fairness

\* The interface called directly, with every ttl, under every TimeZone of the
\* database session; no view is in use.
Ttls == 1..MaxTtl
TzOffsets == {0 - 1, 0, 1}
Payloads == {EmptyPayload, [k \in {"a"} |-> "g"]}
InitTTL ==
    /\ acquired_locks = [s \in {} |-> 1]
    /\ locks = [l \in LockIds |-> FreshLock]
    /\ woken = {}
    /\ db = [s \in {} |-> NoneVal]
    /\ now = 0
    /\ sid \in SidBindings
    /\ warn_lock = [t \in Tasks |-> TRUE]
    /\ store = [t \in Tasks |-> SessionDictInit(NoneVal)]
    /\ is_modified = [t \in Tasks |-> FALSE]
    /\ pc = [t \in Tasks |-> "idle"]
    /\ exc = [t \in Tasks |-> "none"]
    /\ warned = [t \in Tasks |-> {}]
    /\ mutated = [t \in Tasks |-> FALSE]
    /\ lastWrite = [s \in {} |-> EmptyPayload]
    /\ tz \in TzOffsets
    /\ storedAt = [s \in {} |-> EmptyPayload]

viewVars == <<sid, warn_lock, store, is_modified, pc, exc, warned, mutated>>

\* AsyncPG.store
AsyncPG_store(s, expiry, val) ==
    /\ db' = pg_store(s, expiry, val)
    /\ IF val # NoneVal
       THEN /\ lastWrite' = Put(lastWrite, s, val)
            /\ storedAt' = Put(storedAt, s, [val |-> val, ttl |-> expiry, at |-> now])
       ELSE UNCHANGED <<lastWrite, storedAt>>
    /\ UNCHANGED <<lockVars, now, tz, viewVars>>

\* AsyncPG.delete
AsyncPG_delete(s) ==
    /\ db' = pg_delete(s)
    /\ lastWrite' = Del(lastWrite, s)
    /\ storedAt' = Del(storedAt, s)
    /\ UNCHANGED <<lockVars, now, tz, viewVars>>

\* time passes, long enough for every ttl to elapse
TickTTL ==
    /\ now < MaxTtl + 1
    /\ now' = now + 1
    /\ UNCHANGED <<lockVars, db, tz, viewVars, lastWrite, storedAt>>

NextTTL ==
    \/ \E s \in Sids, expiry \in Ttls, val \in Payloads \cup {NoneVal} :
          AsyncPG_store(s, expiry, val)
    \/ \E s \in Sids : AsyncPG_delete(s)
    \/ TickTTL
SpecTTL == InitTTL /\ [][NextTTL]_vars

\* Requests of different sessions: every binding of the views to session ids,
\* the views constructed without an initial mapping and with warn_lock set.
InitIds ==
    /\ acquired_locks = [s \in {} |-> 1]
    /\ locks = [l \in LockIds |-> FreshLock]
    /\ woken = {}
    /\ db = [s \in {} |-> NoneVal]
    /\ now = 0
    /\ sid \in [Tasks -> Sids]
    /\ warn_lock = [t \in Tasks |-> TRUE]
    /\ store = [t \in Tasks |-> SessionDictInit(NoneVal)]
    /\ is_modified = [t \in Tasks |-> FALSE]
    /\ pc = [t \in Tasks |-> "idle"]
    /\ exc = [t \in Tasks |-> "none"]
    /\ warned = [t \in Tasks |-> {}]
    /\ mutated = [t \in Tasks |-> FALSE]
    /\ lastWrite = [s \in {} |-> EmptyPayload]
    /\ tz = 0
    /\ storedAt = [s \in {} |-> EmptyPayload]
SpecIds == InitIds /\ [][Next]_vars

\* A client that uses keys as it was given them: the constructor and the
\* forwarded dict methods receive upper-case keys too.
RawInitialMappings == {NoneVal, [k \in {"A"} |-> "u"]}
RawDictUses ==
    {[name |-> n, key |-> k, called |-> TRUE] :
        n \in {"pop", "update", "setdefault"}, k \in Keys}
    \cup {[name |-> n, key |-> "a", called |-> TRUE] : n \in {"popitem", "clear"}}
InitKeys ==
    /\ acquired_locks = [s \in {} |-> 1]
    /\ locks = [l \in LockIds |-> FreshLock]
    /\ woken = {}
    /\ db = [s \in {} |-> NoneVal]
    /\ now = 0
    /\ sid \in SidBindings
    /\ warn_lock = [t \in Tasks |-> TRUE]
    /\ \E initial \in [Tasks -> RawInitialMappings] :
          store = [t \in Tasks |-> SessionDictInit(initial[t])]
    /\ is_modified = [t \in Tasks |-> FALSE]
    /\ pc = [t \in Tasks |-> "idle"]
    /\ exc = [t \in Tasks |-> "none"]
    /\ warned = [t \in Tasks |-> {}]
    /\ mutated = [t \in Tasks |-> FALSE]
    /\ lastWrite = [s \in {} |-> EmptyPayload]
    /\ tz = 0
    /\ storedAt = [s \in {} |-> EmptyPayload]
NextKeys ==
    \/ \E t \in Tasks, k \in Keys : getitem(t, k)
    \/ \E t \in Tasks, k \in Keys : setitem(t, k)
    \/ \E t \in Tasks, k \in Keys : delitem(t, k)
    \/ \E t \in Tasks, u \in RawDictUses : getattr(t, u.name, u.key, u.called)
    \/ \E t \in Tasks : aenter(t)
    \/ \E t \in Tasks : acquire_wakeup(t)
    \/ \E t \in Tasks : fetch_ok(t)
    \/ \E t \in Tasks : fetch_fail(t)
    \/ \E t \in Tasks, raised \in BOOLEAN : aexit(t, raised)
    \/ \E t \in Tasks : post_ok(t)
    \/ \E t \in Tasks : post_fail(t)
    \/ Tick
SpecKeys == InitKeys /\ [][NextKeys]_vars

\* A client whose only mutations of a view are item writes and reset: here a
\* store that is empty after a mutation inside a scope was emptied by reset.
NextReset ==
    \/ \E t \in Tasks, k \in Keys : setitem(t, k)
    \/ \E t \in Tasks : reset(t)
    \/ \E t \in Tasks : aenter(t)
    \/ \E t \in Tasks : acquire_wakeup(t)
    \/ \E t \in Tasks : fetch_ok(t)
    \/ \E t \in Tasks : fetch_fail(t)
    \/ \E t \in Tasks, raised \in BOOLEAN : aexit(t, raised)
    \/ \E t \in Tasks : post_ok(t)
    \/ \E t \in Tasks : post_fail(t)
    \/ Tick
SpecReset == Init /\ [][NextReset]_vars

\* ------------------------------------------------------------------- claims
\* between the return of lock_keeper.acquire and the end of __aexit__
InCriticalSection(t) == pc[t] \in {"fetching", "body", "storing"}
SameSid(t, u) == t # u /\ sid[t] = sid[u]
\* the row of s is visible to fetch
Unexpired(s) == s \in DOMAIN db /\ db[s].expires_at > NOW
\* the payload the backend holds for s, None when fetch reports it absent
DurablePayload(s) == IF Unexpired(s) THEN [k \in {i[1] : i \in db[s].val.json} |->
                        (CHOOSE i \in db[s].val.json : i[1] = k)[2]] ELSE NoneVal
\* the step is t leaving its scope through lock_keeper.release
Releases(t) == /\ pc[t] \in {"body", "storing"}
               /\ sid[t] \in DOMAIN acquired_locks
               /\ sid[t] \notin DOMAIN acquired_locks'

\* C1: mutual exclusion - no two tasks are at once between the grant of the
\* lock of one session id and the end of their write-back and release.
C1_MutualExclusion ==
    \A t, u \in Tasks : SameSid(t, u) => ~(InCriticalSection(t) /\ InCriticalSection(u))

C1_Witness ==
    \E t, u \in Tasks : SameSid(t, u) /\ pc[t] = "body" /\ pc[u] = "waiting"

\* C2: read-your-writes - what a scope loaded, as long as it has not mutated it,
\* is the payload of the most recent write-back on its session id, provided
\* that write-back has not expired.
C2_ReadYourWrites ==
    \A t \in Tasks :
        (pc[t] = "body" /\ ~mutated[t] /\ sid[t] \in DOMAIN lastWrite /\ Unexpired(sid[t]))
            => store[t] = lastWrite[sid[t]]

C2_Witness ==
    \E t \in Tasks :
        /\ pc[t] = "body" /\ ~mutated[t] /\ sid[t] \in DOMAIN lastWrite
        /\ Unexpired(sid[t])
        /\ store[t] = lastWrite[sid[t]] /\ store[t] # EmptyPayload

\* C3: when the body of a scope raised and the backend calls succeed, the exit
\* deletes the registry entry of the session id in the step that ends the
\* scope, and any task that then calls acquire for that id is granted at once.
C3_ReleaseOnFailingBody ==
    [][\A t \in Tasks :
          ((aexit(t, TRUE) /\ ~is_modified[t]) \/ (post_ok(t) /\ exc[t] = "BodyError"))
             => /\ sid[t] \in DOMAIN acquired_locks
                /\ sid[t] \notin DOMAIN acquired_locks'
                /\ pc'[t] = "idle" /\ exc'[t] = "BodyError"
                /\ \A u \in Tasks : ~(acquire(u, sid[t]).suspended)'
      ]_vars

C3_Witness ==
    \E t, u \in Tasks :
        /\ SameSid(t, u) /\ pc[t] = "idle" /\ exc[t] = "BodyError"
        /\ pc[u] \in {"fetching", "body"}

\* C4: when _fetch_sess or _post_sess raises, the lock of the session id is
\* released before the error reaches the caller.
C4_ReleaseOnBackendFailure ==
    [][\A t \in Tasks :
          (pc[t] \in {"fetching", "storing"} /\ exc'[t] = "BackendFailure")
             => ~is_locked(t)'
      ]_vars

\* C5: a task waiting on the lock of a session id whose holder has left its
\* scope is eventually granted the lock (unless it is cancelled), and a release
\* that finds waiters wakes exactly one of them.
Orphaned(t) == pc[t] = "waiting" /\ WaitLock(t) \notin Range(acquired_locks)
C5_WaiterLiveness ==
    /\ \A t \in Tasks :
          Orphaned(t) ~> (pc[t] = "fetching" \/ exc[t] = "CancelledError")
    /\ [][\A t \in Tasks :
             (Releases(t) /\ locks[acquired_locks[sid[t]]].waiters # <<>>)
                => /\ Cardinality(woken' \ woken) = 1
                   /\ woken' \ woken \subseteq Range(locks[acquired_locks[sid[t]]].waiters)
         ]_vars

\* C6: every task blocked in acquire waits on the lock the registry maps its
\* session id to.
C6_NoOrphanedWaiter ==
    \A t \in Tasks :
        pc[t] = "waiting"
            => sid[t] \in DOMAIN acquired_locks /\ acquired_locks[sid[t]] = WaitLock(t)

\* C7: a guarded entry of a view whose flag is set emits the mixed-access
\* warning and replaces the store by the payload of the backend; no value
\* written unguarded is in the store inside a scope, nor in the backend.
C7_UnguardedWritesDiscarded ==
    /\ \A t \in Tasks :
          /\ pc[t] \in {"waiting", "fetching"} => (is_modified[t] <=> "MIX" \in warned[t])
          /\ pc[t] \in {"body", "storing"} => "u" \notin Range(store[t])
          /\ (pc[t] = "body" /\ ~mutated[t] /\ (sid[t] \notin DOMAIN db \/ Unexpired(sid[t])))
                => store[t] = OrEmpty(DurablePayload(sid[t]))
    /\ \A s \in DOMAIN db : "u" \notin {i[2] : i \in db[s].val.json}

C7_Witness ==
    \E t \in Tasks :
        /\ pc[t] = "body" /\ "MIX" \in warned[t] /\ is_modified[t] /\ ~mutated[t]
        /\ Unexpired(sid[t]) /\ store[t] = DurablePayload(sid[t])
        /\ store[t] # EmptyPayload

\* C8: a set flag means the store was mutated since its last load or write-back.
C8_DirtyImpliesMutated ==
    \A t \in Tasks : is_modified[t] => mutated[t]

\* C9: with warn_lock set, every item read, write or delete on a view outside
\* its own scope emits the unlocked-access warning.
C9_UnguardedAccessWarns ==
    [][\A t \in Tasks, k \in Keys :
          ((getitem(t, k) \/ setitem(t, k) \/ delitem(t, k))
              /\ pc[t] = "idle" /\ warn_lock[t])
             => "UNLOCKED" \in warned'[t]
      ]_vars

\* C10: the exit of a scope starts the write-back exactly when the flag is set;
\* it ends with the flag cleared and the registry entry deleted; and a scope
\* whose body mutated nothing leaves the payload of the backend as it was.
C10_WriteBackOnlyWhenMutated ==
    [][\A t \in Tasks :
          /\ (pc[t] = "body" /\ pc'[t] # "body")
                => IF is_modified[t]
                   THEN pc'[t] = "storing" /\ db' = db
                   ELSE pc'[t] = "idle" /\ db' = db /\ ~is_locked(t)'
          /\ (pc[t] = "storing" /\ pc'[t] = "idle" /\ exc'[t] # "BackendFailure")
                => /\ sid[t] \in DOMAIN db' /\ db'[sid[t]].val = encoder(store[t])
                   /\ ~is_modified'[t] /\ ~is_locked(t)'
          /\ (pc[t] \in {"body", "storing"} /\ pc'[t] = "idle"
                /\ exc'[t] # "BackendFailure" /\ ~mutated[t])
                => DurablePayload(sid[t])' = DurablePayload(sid[t])
      ]_vars

\* C11: reset() on a non-empty store empties it and sets the flag; on an empty
\* store it changes neither the store nor the flag; in both cases the registry,
\* the locks and the backend are left as they were.
C11_ResetFrame ==
    [][\A t \in Tasks :
          reset(t)
             => /\ IF store[t] # EmptyPayload
                   THEN store'[t] = EmptyPayload /\ is_modified'[t]
                   ELSE store'[t] = store[t] /\ is_modified'[t] = is_modified[t]
                /\ \A u \in Tasks \ {t} :
                      store'[u] = store[u] /\ is_modified'[u] = is_modified[u]
                /\ acquired_locks' = acquired_locks /\ locks' = locks
                /\ woken' = woken /\ pc' = pc
                /\ db' = db
      ]_vars

\* under SpecReset: inside a scope, a store emptied by reset, the lock of the
\* session still held and the backend row still there
C11_Witness ==
    \E t \in Tasks :
        /\ pc[t] = "body" /\ mutated[t] /\ is_modified[t] /\ store[t] = EmptyPayload
        /\ is_locked(t) /\ Unexpired(sid[t])

\* C12: TTL - after AsyncPG.store(id, T, payload) with a payload that is not
\* None, and as long as no other store of that id follows, fetch(id) returns
\* the payload while fewer than T seconds have elapsed and None from then on.
C12_TTL ==
    \A s \in DOMAIN storedAt :
        IF now < storedAt[s].at + storedAt[s].ttl
        THEN fetch(s) = storedAt[s].val
        ELSE fetch(s) = NoneVal

\* C13: independence of ids - a call of acquire is granted at once whenever the
\* registry has no entry for its id, whatever entries, holders and waiters the
\* other ids have; it leaves the entries and the locks of the other ids as
\* they were; and no task ever waits on the lock of another id.
C13_IndependentIds ==
    /\ [][\A t \in Tasks :
             aenter(t)
                => /\ sid[t] \notin DOMAIN acquired_locks => pc'[t] = "fetching"
                   /\ \A s \in DOMAIN acquired_locks \ {sid[t]} :
                         /\ s \in DOMAIN acquired_locks'
                         /\ acquired_locks'[s] = acquired_locks[s]
                         /\ locks'[acquired_locks[s]] = locks[acquired_locks[s]]
                   /\ DOMAIN acquired_locks' \subseteq DOMAIN acquired_locks \cup {sid[t]}
         ]_vars
    /\ [](\A t \in Tasks :
             pc[t] = "waiting"
                => \A s \in DOMAIN acquired_locks \ {sid[t]} :
                      acquired_locks[s] # WaitLock(t))

\* a task is granted the lock of one id while the lock of the other id is
\* held and has a waiter
C13_Witness ==
    \E t, u \in Tasks :
        /\ sid[t] # sid[u]
        /\ pc[t] = "waiting" /\ sid[t] \in DOMAIN acquired_locks
        /\ acquired_locks[sid[t]] = WaitLock(t)
        /\ pc[u] = "fetching"

\* C14: key normalisation - every key of the store of every view is in
\* lower-case form.
C14_KeysLowerCase ==
    \A t \in Tasks : \A k \in DOMAIN store[t] : Lower(k) = k

\* C15: atomic create-and-first-acquire - a call of acquire that finds no entry
\* for its id has, in the same step, created a lock, locked it, inserted it and
\* been granted; a call that finds an entry creates nothing; so no two tasks
\* have both been granted the lock of one id by creating it.
C15_AtomicCreate ==
    /\ [][\A t \in Tasks :
             aenter(t)
                => IF sid[t] \notin DOMAIN acquired_locks
                   THEN /\ sid[t] \in DOMAIN acquired_locks'
                        /\ acquired_locks'[sid[t]] \notin Range(acquired_locks)
                        /\ locks'[acquired_locks'[sid[t]]] = [locked |-> TRUE, waiters |-> <<>>]
                        /\ pc'[t] = "fetching"
                   ELSE acquired_locks' = acquired_locks
         ]_vars
    /\ [](\A t, u \in Tasks :
             SameSid(t, u) => ~(pc[t] = "fetching" /\ pc[u] = "fetching"))

\* two acquirers of one id: the first took the creation branch and was
\* granted, the second found the entry and waits on the lock the first created
C15_Witness ==
    \E t, u \in Tasks :
        /\ SameSid(t, u) /\ pc[t] = "fetching" /\ pc[u] = "waiting"
        /\ sid[t] \in DOMAIN acquired_locks
        /\ WaitLock(u) = acquired_locks[sid[t]]

\* C16: a task cancelled while it waits in acquire is not granted the lock,
\* and the cancellation changes neither the registry map nor the locked state
\* of any lock in it.
C16_CancelBeforeGrant ==
    [][\A t \in Tasks :
          (pc[t] = "waiting" /\ exc'[t] = "CancelledError")
             => /\ pc'[t] = "idle"
                /\ t \notin woken'
                /\ \A l \in LockIds : t \notin Range(locks'[l].waiters)
                /\ acquired_locks' = acquired_locks
                /\ \A s \in DOMAIN acquired_locks :
                      locks'[acquired_locks[s]].locked = locks[acquired_locks[s]].locked
      ]_vars

\* a waiter was cancelled while the holder is still in its scope
C16_Witness ==
    \E t, u \in Tasks :
        /\ SameSid(t, u) /\ pc[t] = "idle" /\ exc[t] = "CancelledError"
        /\ InCriticalSection(u) /\ is_locked(u)

\* C17: every lock object in the registry is locked, so is_locked() of a view
\* is true exactly when the sid of the view is a key of the registry.
C17_RegistryLocksLocked ==
    /\ \A s \in DOMAIN acquired_locks : locks[acquired_locks[s]].locked
    /\ \A t \in Tasks : is_locked(t) <=> sid[t] \in DOMAIN acquired_locks

\* one view is idle after a backend failure and is_locked() is still true for
\* it, the other view is idle on an id without entry
C17_Witness ==
    \E t, u \in Tasks :
        /\ sid[t] # sid[u]
        /\ pc[t] = "idle" /\ exc[t] = "BackendFailure" /\ is_locked(t)
        /\ pc[u] = "idle" /\ ~is_locked(u)

\* C18: the assertion after acquire in __aenter__ and the assertion after
\* release in __aexit__ never fail.
C18_AssertionsHold ==
    \A t \in Tasks : exc[t] # "AssertionError"

\* scopes on both ids have ended with a write-back and a release, and a
\* further scope has been entered after a wait-free acquire
C18_Witness ==
    \E t, u \in Tasks :
        /\ sid[t] # sid[u]
        /\ sid[t] \in DOMAIN lastWrite /\ sid[u] \in DOMAIN lastWrite
        /\ pc[t] = "body" /\ exc[t] = "none"
        /\ pc[u] = "idle" /\ exc[u] = "none" /\ ~is_locked(u)
====
